---- MODULE Spec2Model ----
(***************************************************************************)
(* Model of src/src/components/dashboard/MessageBubble.tsx.                *)
(*                                                                         *)
(* Two parts of the component are modelled:                                *)
(*   - the @zani effect (processZani, lines 67-109): the per-instance      *)
(*     state isProcessingZani / zaniResponse, the persisted response       *)
(*     store behind getStoredZaniResponse / storeZaniResponse /            *)
(*     isMessageProcessed, and the calls of processZaniQuery in flight;    *)
(*   - formatMessageContent (lines 145-192) with getFileType,              *)
(*     getActualFileUrl and getFileSize (lines 194-246).                   *)
(*                                                                         *)
(* Strings are sequences of one-character strings.  The functions of       *)
(* '@/services/zaniService' and getMessages of MessageContext are not part *)
(* of the source file; they are modelled from spec.md (sections 4.3, 4.4,  *)
(* 4.5 and 6).                                                             *)
(***************************************************************************)
EXTENDS Integers, Sequences, FiniteSets, TLC

VARIABLES
    message,            \* props.message of each mounted MessageBubble (a message id)
    isProcessingZani,   \* useState(false), line 55, per instance
    zaniResponse,       \* useState<string | null>(null), line 56, per instance
    zaniResponses,      \* the persisted response store: message id -> text
    processedMessages,  \* the persisted "processed" marks
    channelMessages,    \* MessageContext: channel id -> list of message ids
    pending,            \* calls of processZaniQuery awaiting their result
    calls,              \* history: number of processZaniQuery calls per message id
    rejected,           \* history: message ids whose query was rejected
    last,               \* history: the step taken last
    content,            \* formatMessageContent: the argument
    storedFiles,        \* localStorage['slackAI_files']
    out,                \* formatMessageContent: the value returned (or the error raised)
    previous            \* history: the outcome of the call before the last one

vars == <<message, isProcessingZani, zaniResponse, zaniResponses, processedMessages,
          channelMessages, pending, calls, rejected, last,
          content, storedFiles, out, previous>>

dispatchVars == <<message, isProcessingZani, zaniResponse, zaniResponses,
                  processedMessages, channelMessages, pending, calls,
                  rejected, last>>

formatVars == <<content, storedFiles, out, previous>>

-----------------------------------------------------------------------------
(* Bounds *)

NumInstances == 2
MaxCalls == 2

Instances == 1..NumInstances

-----------------------------------------------------------------------------
(* JavaScript values *)

Null == "<null>"
Absent == "<undefined>"

Falsy(x) == x \in {Null, Absent, ""}
Truthy(x) == ~Falsy(x)

-----------------------------------------------------------------------------
(* Strings as sequences of characters *)

WhiteSpace == {" ", "\n", "\r", "\t"}
LineTerminators == {"\n", "\r"}
Digits == {"0", "1", "2", "3", "4", "5", "6", "7", "8", "9"}

RECURSIVE TrimStart(_)
TrimStart(s) ==
    IF s # <<>> /\ Head(s) \in WhiteSpace THEN TrimStart(Tail(s)) ELSE s

RECURSIVE TrimEnd(_)
TrimEnd(s) ==
    IF s # <<>> /\ s[Len(s)] \in WhiteSpace
    THEN TrimEnd(SubSeq(s, 1, Len(s) - 1)) ELSE s

\* String.prototype.trim
Trim(s) == TrimEnd(TrimStart(s))

\* p occurs in s starting at index i
OccursAt(p, s, i) ==
    /\ i >= 1
    /\ i + Len(p) - 1 <= Len(s)
    /\ SubSeq(s, i, i + Len(p) - 1) = p

\* String.prototype.indexOf, 1-based; 0 when p does not occur
IndexOf(s, p) ==
    IF \E i \in 1..(Len(s) + 1) : OccursAt(p, s, i)
    THEN CHOOSE i \in 1..(Len(s) + 1) :
            OccursAt(p, s, i) /\ \A j \in 1..(i - 1) : ~OccursAt(p, s, j)
    ELSE 0

-----------------------------------------------------------------------------
(* Characters *)

\* the attachment glyph of line 147 (U+1F4CE, two UTF-16 code units), as one symbol
Marker == "[U+1F4CE]"

\* a letter outside Latin-1 (U+03A9)
Omega == "[U+03A9]"

\* the characters U+0020 .. U+007E in code order (the double quote, the
\* backslash and the backquote as symbols)
Printable ==
    <<" ", "!", "[U+0022]", "#", "$", "%", "&", "'", "(", ")", "*", "+", ",", "-", ".", "/",
      "0", "1", "2", "3", "4", "5", "6", "7", "8", "9", ":", ";", "<", "=", ">", "?",
      "@", "A", "B", "C", "D", "E", "F", "G", "H", "I", "J", "K", "L", "M", "N", "O",
      "P", "Q", "R", "S", "T", "U", "V", "W", "X", "Y", "Z", "[", "[U+005C]", "]", "^", "_",
      "[U+0060]", "a", "b", "c", "d", "e", "f", "g", "h", "i", "j", "k", "l", "m", "n", "o",
      "p", "q", "r", "s", "t", "u", "v", "w", "x", "y", "z", "{", "|", "}", "~">>

Upper ==
    <<"A", "B", "C", "D", "E", "F", "G", "H", "I", "J", "K", "L", "M", "N", "O", "P",
      "Q", "R", "S", "T", "U", "V", "W", "X", "Y", "Z">>

Lower ==
    <<"a", "b", "c", "d", "e", "f", "g", "h", "i", "j", "k", "l", "m", "n", "o", "p",
      "q", "r", "s", "t", "u", "v", "w", "x", "y", "z">>

Letters == {Upper[k] : k \in DOMAIN Upper} \cup {Lower[k] : k \in DOMAIN Lower}

\* the regular expression class \w
WordChars == Letters \cup Digits \cup {"_"}

\* the UTF-16 code unit of a character (the first one for the glyph)
CharCode(c) ==
    IF \E k \in DOMAIN Printable : Printable[k] = c
    THEN 31 + (CHOOSE k \in DOMAIN Printable : Printable[k] = c)
    ELSE IF c = "\t" THEN 9
    ELSE IF c = "\n" THEN 10
    ELSE IF c = "\r" THEN 13
    ELSE IF c = Omega THEN 937
    ELSE 55357

\* String.prototype.toLowerCase
ToLowerChar(c) ==
    IF \E k \in DOMAIN Upper : Upper[k] = c
    THEN Lower[CHOOSE k \in DOMAIN Upper : Upper[k] = c]
    ELSE c

toLowerCase(s) == [k \in DOMAIN s |-> ToLowerChar(s[k])]

Base64Chars ==
    <<"A", "B", "C", "D", "E", "F", "G", "H", "I", "J", "K", "L", "M", "N", "O", "P",
      "Q", "R", "S", "T", "U", "V", "W", "X", "Y", "Z", "a", "b", "c", "d", "e", "f",
      "g", "h", "i", "j", "k", "l", "m", "n", "o", "p", "q", "r", "s", "t", "u", "v",
      "w", "x", "y", "z", "0", "1", "2", "3", "4", "5", "6", "7", "8", "9", "+", "/">>

\* base64 of a sequence of bytes
RECURSIVE Base64(_)
Base64(bytes) ==
    IF bytes = <<>> THEN <<>>
    ELSE LET n == Len(bytes)
             b1 == bytes[1]
             b2 == IF n >= 2 THEN bytes[2] ELSE 0
             b3 == IF n >= 3 THEN bytes[3] ELSE 0
             c1 == Base64Chars[(b1 \div 4) + 1]
             c2 == Base64Chars[((b1 % 4) * 16 + (b2 \div 16)) + 1]
             c3 == IF n >= 2 THEN Base64Chars[((b2 % 16) * 4 + (b3 \div 64)) + 1] ELSE "="
             c4 == IF n >= 3 THEN Base64Chars[(b3 % 64) + 1] ELSE "="
         IN <<c1, c2, c3, c4>> \o (IF n > 3 THEN Base64(SubSeq(bytes, 4, n)) ELSE <<>>)

\* window.btoa: raises InvalidCharacterError for a character above U+00FF
BtoaThrows(s) == \E k \in DOMAIN s : CharCode(s[k]) > 255

btoa(s) == Base64([k \in DOMAIN s |-> CharCode(s[k])])

-----------------------------------------------------------------------------
(* getFileType, getActualFileUrl, getFileSize: lines 194-246 *)

Max(S) == CHOOSE x \in S : \A y \in S : y <= x

\* fileName.split('.').pop()?.toLowerCase(), lines 195, 221
Extension(fileName) ==
    LET dots == {k \in DOMAIN fileName : fileName[k] = "."}
    IN toLowerCase(IF dots = {} THEN fileName
                   ELSE SubSeq(fileName, Max(dots) + 1, Len(fileName)))

ExtJpg == <<"j", "p", "g">>
ExtJpeg == <<"j", "p", "e", "g">>
ExtPng == <<"p", "n", "g">>
ExtGif == <<"g", "i", "f">>
ExtWebp == <<"w", "e", "b", "p">>
ExtSvg == <<"s", "v", "g">>
ExtPdf == <<"p", "d", "f">>
ExtDoc == <<"d", "o", "c">>
ExtDocx == <<"d", "o", "c", "x">>
ExtXls == <<"x", "l", "s">>
ExtXlsx == <<"x", "l", "s", "x">>

\* line 196
ImageExtensions == {ExtJpg, ExtJpeg, ExtPng, ExtGif, ExtWebp, ExtSvg}

\* line 222
PlaceholderExtensions == {ExtJpg, ExtJpeg, ExtPng, ExtGif, ExtWebp}

TypeImagePrefix == <<"i", "m", "a", "g", "e", "/">>
TypePdf ==
    <<"a", "p", "p", "l", "i", "c", "a", "t", "i", "o", "n", "/", "p", "d", "f">>
TypeMsword ==
    <<"a", "p", "p", "l", "i", "c", "a", "t", "i", "o", "n", "/", "m", "s", "w", "o",
      "r", "d">>
TypeExcel ==
    <<"a", "p", "p", "l", "i", "c", "a", "t", "i", "o", "n", "/", "e", "x", "c", "e",
      "l">>
TypeOctetStream ==
    <<"a", "p", "p", "l", "i", "c", "a", "t", "i", "o", "n", "/", "o", "c", "t", "e",
      "t", "-", "s", "t", "r", "e", "a", "m">>

\* lines 194-203
getFileType(fileName) ==
    LET extension == Extension(fileName) IN
    IF extension \in ImageExtensions
    THEN TypeImagePrefix \o (IF extension = ExtJpg THEN ExtJpeg ELSE extension)
    ELSE IF extension = ExtPdf THEN TypePdf
    ELSE IF extension \in {ExtDoc, ExtDocx} THEN TypeMsword
    ELSE IF extension \in {ExtXls, ExtXlsx} THEN TypeExcel
    ELSE TypeOctetStream

\* localStorage.getItem('slackAI_files'): no item, text JSON.parse rejects, or an
\* object whose values (in Object.values order) are records of name, url and size
NoStoredFiles == [kind |-> "null", files |-> <<>>]
InvalidStoredFiles == [kind |-> "invalid", files |-> <<>>]

\* lines 207-211, 231-235: the entries searched; none when the item is missing or
\* JSON.parse throws (caught at lines 215, 239)
StoredEntries == IF storedFiles.kind = "files" THEN storedFiles.files ELSE <<>>

\* Array.prototype.find with file.name === fileName, lines 211, 235: the index of
\* the first entry of that name, 0 when there is none
FindEntry(fileName) ==
    LET hits == {k \in DOMAIN StoredEntries : StoredEntries[k].name = fileName}
    IN IF hits = {} THEN 0 ELSE CHOOSE k \in hits : \A j \in hits : k <= j

\* line 223
PlaceholderUrl ==
    <<"/", "l", "o", "v", "a", "b", "l", "e", "-", "u", "p", "l", "o", "a", "d", "s",
      "/", "5", "2", "5", "e", "7", "c", "6", "5", "-", "c", "0", "2", "8", "-", "4",
      "d", "a", "7", "-", "a", "1", "e", "6", "-", "3", "5", "c", "b", "a", "7", "3",
      "7", "5", "3", "5", "3", ".", "p", "n", "g">>

\* line 226
DataUrlPrefix ==
    <<"d", "a", "t", "a", ":", "a", "p", "p", "l", "i", "c", "a", "t", "i", "o", "n",
      "/", "o", "c", "t", "e", "t", "-", "s", "t", "r", "e", "a", "m", ";", "b", "a",
      "s", "e", "6", "4", ",">>

\* lines 212-214: the stored url is used when the entry has a truthy one
HasStoredUrl(fileName) ==
    FindEntry(fileName) # 0 /\ StoredEntries[FindEntry(fileName)].url # <<>>

\* line 226: btoa raises for a file name with a character above U+00FF
UrlThrows(fileName) ==
    /\ ~HasStoredUrl(fileName)
    /\ Extension(fileName) \notin PlaceholderExtensions
    /\ BtoaThrows(fileName)

\* lines 205-227, when no error is raised
getActualFileUrl(fileName) ==
    IF HasStoredUrl(fileName) THEN StoredEntries[FindEntry(fileName)].url
    ELSE IF Extension(fileName) \in PlaceholderExtensions THEN PlaceholderUrl
    ELSE DataUrlPrefix \o btoa(fileName)

\* line 245: Math.floor(Math.random() * 5000000) + 100000
RandomRange == 5000000
RandomOffset == 100000

\* the least and the greatest value line 245 can produce
RandomSizes == {RandomOffset, RandomOffset + RandomRange - 1}

\* lines 236-238: the stored size is used when the entry has a truthy one
HasStoredSize(fileName) ==
    FindEntry(fileName) # 0 /\ StoredEntries[FindEntry(fileName)].size # 0

\* lines 229-246; random is the value of line 245
getFileSize(fileName, random) ==
    IF HasStoredSize(fileName) THEN StoredEntries[FindEntry(fileName)].size ELSE random

-----------------------------------------------------------------------------
(* formatMessageContent, lines 145-192 *)

\* the regular expression dot: any character but a line terminator
Dot(c) == c \notin LineTerminators

FilePrefix == <<Marker, " ">>

\* where the run of dots starting at index k ends: the first index from k on that
\* holds a line terminator, Len(s) + 1 when there is none
RECURSIVE DotsEnd(_, _)
DotsEnd(s, k) == IF k > Len(s) \/ ~Dot(s[k]) THEN k ELSE DotsEnd(s, k + 1)

\* line 147: /<glyph> (.+?)(?:\n|$)/ matches at index i
FileMatchAt(s, i) ==
    /\ OccursAt(FilePrefix, s, i)
    /\ DotsEnd(s, i + 2) >= i + 3
    /\ DotsEnd(s, i + 2) > Len(s) \/ s[DotsEnd(s, i + 2)] = "\n"

\* match[0] and match[1] of the match at index i
FileMatch(s, i) ==
    LET j == DotsEnd(s, i + 2) IN
    [whole |-> SubSeq(s, i, IF j > Len(s) THEN Len(s) ELSE j),
     group |-> SubSeq(s, i + 2, j - 1)]

\* lines 147, 152: the matches filePattern.exec finds in turn, from lastIndex on
RECURSIVE FileMatches(_, _)
FileMatches(s, lastIndex) ==
    IF lastIndex > Len(s) THEN <<>>
    ELSE IF FileMatchAt(s, lastIndex)
    THEN <<FileMatch(s, lastIndex)>>
            \o FileMatches(s, lastIndex + Len(FileMatch(s, lastIndex).whole))
    ELSE FileMatches(s, lastIndex + 1)

\* line 153
FileName(match) == Trim(match.group)

\* String.prototype.replace(string, ''): the first occurrence is removed
RemoveFirst(s, p) ==
    LET i == IndexOf(s, p) IN
    IF i = 0 THEN s ELSE SubSeq(s, 1, i - 1) \o SubSeq(s, i + Len(p), Len(s))

\* line 160, for the matches from the k-th on
RECURSIVE StripMatches(_, _, _)
StripMatches(textContent, matches, k) ==
    IF k > Len(matches) THEN textContent
    ELSE StripMatches(Trim(RemoveFirst(textContent, matches[k].whole)), matches, k + 1)

\* lines 154-159; random[k] is the value line 245 produces for the k-th file
FileOf(match, random) ==
    [name |-> FileName(match),
     type |-> getFileType(FileName(match)),
     url |-> getActualFileUrl(FileName(match)),
     size |-> getFileSize(FileName(match), random)]

\* lines 152-161: the loop raises when getActualFileUrl does for one of the files
FilesThrow(matches) == \E k \in DOMAIN matches : UrlThrows(FileName(matches[k]))

Min(S) == CHOOSE x \in S : \A y \in S : x <= y

\* the least index from i on that holds a character outside C, Len(s) + 1 when
\* there is none
RunEnd(s, i, C) == Min({k \in i..Len(s) : s[k] \notin C} \cup {Len(s) + 1})

\* the least index from i on that holds a character of C, Len(s) + 1 when there
\* is none
RunEndNot(s, i, C) == Min({k \in i..Len(s) : s[k] \in C} \cup {Len(s) + 1})

\* line 168, /!\[(.*?)\]\((.*?)\)/ matched at index i: the indices of "](" and of
\* the closing ")" the lazy groups can take; empty when there is no match
ImageBounds(s, i) ==
    IF i + 1 <= Len(s) /\ s[i] = "!" /\ s[i + 1] = "["
    THEN LET stop == RunEndNot(s, i + 2, LineTerminators) IN
         {ab \in ((i + 2)..(stop - 1)) \X ((i + 2)..(stop - 1)) :
            /\ ab[1] + 2 <= ab[2]
            /\ s[ab[1]] = "]" /\ s[ab[1] + 1] = "("
            /\ s[ab[2]] = ")"}
    ELSE {}

\* the match the lazy groups select: the least "](", then the least ")"
ImageMatch(s, i) ==
    CHOOSE ab \in ImageBounds(s, i) :
        \A cd \in ImageBounds(s, i) :
            ab[1] < cd[1] \/ (ab[1] = cd[1] /\ ab[2] <= cd[2])

ImgOpen ==
    <<"<", "i", "m", "g", " ", "s", "r", "c", "=", "[U+0022]">>
ImgAlt ==
    <<"[U+0022]", " ", "a", "l", "t", "=", "[U+0022]">>
ImgClass ==
    <<"[U+0022]", " ", "c", "l", "a", "s", "s", "=", "[U+0022]", "m", "a", "x", "-",
      "w", "-", "f", "u", "l", "l", " ", "r", "o", "u", "n", "d", "e", "d", "-", "m",
      "d", " ", "m", "y", "-", "2", " ", "c", "u", "r", "s", "o", "r", "-", "p", "o",
      "i", "n", "t", "e", "r", " ", "h", "o", "v", "e", "r", ":", "o", "p", "a", "c",
      "i", "t", "y", "-", "9", "0", " ", "t", "r", "a", "n", "s", "i", "t", "i", "o",
      "n", "-", "o", "p", "a", "c", "i", "t", "y", "[U+0022]", " ", "s", "t", "y", "l",
      "e", "=", "[U+0022]", "m", "a", "x", "-", "h", "e", "i", "g", "h", "t", ":", " ",
      "3", "0", "0", "p", "x", ";", "[U+0022]", " ", "o", "n", "c", "l", "i", "c", "k",
      "=", "[U+0022]", "w", "i", "n", "d", "o", "w", ".", "o", "p", "e", "n", "(", "'">>
ImgClose ==
    <<"'", ",", " ", "'", "_", "b", "l", "a", "n", "k", "'", ")", "[U+0022]", " ", "/",
      ">">>

\* line 170
ImageElement(alt, url) == ImgOpen \o url \o ImgAlt \o alt \o ImgClass \o url \o ImgClose

\* lines 168-171, from index from on
RECURSIVE ReplaceImages(_, _)
ReplaceImages(s, from) ==
    LET starts == {i \in from..Len(s) : ImageBounds(s, i) # {}} IN
    IF starts = {} THEN SubSeq(s, from, Len(s))
    ELSE LET i == Min(starts)
             ab == ImageMatch(s, i)
         IN SubSeq(s, from, i - 1)
               \o ImageElement(SubSeq(s, i + 2, ab[1] - 1), SubSeq(s, ab[1] + 2, ab[2] - 1))
               \o ReplaceImages(s, ab[2] + 1)

Http == <<"h", "t", "t", "p">>
SchemeEnd == <<":", "/", "/">>

\* line 174, /(https?:\/\/[^\s]+)/ matched at index i: the length of the match,
\* 0 when there is none
UrlLength(s, i) ==
    LET scheme == IF OccursAt(Http \o SchemeEnd, s, i) THEN 7
                  ELSE IF OccursAt(Http \o <<"s">> \o SchemeEnd, s, i) THEN 8
                  ELSE 0
        stop == RunEndNot(s, i + scheme, WhiteSpace)
    IN IF scheme = 0 \/ stop = i + scheme THEN 0 ELSE stop - i

AnchorOpen ==
    <<"<", "a", " ", "h", "r", "e", "f", "=", "[U+0022]">>
AnchorAttrs ==
    <<"[U+0022]", " ", "t", "a", "r", "g", "e", "t", "=", "[U+0022]", "_", "b", "l",
      "a", "n", "k", "[U+0022]", " ", "r", "e", "l", "=", "[U+0022]", "n", "o", "o",
      "p", "e", "n", "e", "r", " ", "n", "o", "r", "e", "f", "e", "r", "r", "e", "r",
      "[U+0022]", " ", "c", "l", "a", "s", "s", "=", "[U+0022]", "t", "e", "x", "t",
      "-", "b", "l", "u", "e", "-", "4", "0", "0", " ", "h", "o", "v", "e", "r", ":",
      "u", "n", "d", "e", "r", "l", "i", "n", "e", "[U+0022]", ">">>
AnchorClose ==
    <<"<", "/", "a", ">">>

\* line 175
LinkElement(url) == AnchorOpen \o url \o AnchorAttrs \o url \o AnchorClose

\* lines 174-175, from index from on
RECURSIVE ReplaceUrls(_, _)
ReplaceUrls(s, from) ==
    LET starts == {i \in from..Len(s) : UrlLength(s, i) > 0} IN
    IF starts = {} THEN SubSeq(s, from, Len(s))
    ELSE LET i == Min(starts)
             n == UrlLength(s, i)
         IN SubSeq(s, from, i - 1) \o LinkElement(SubSeq(s, i, i + n - 1))
               \o ReplaceUrls(s, i + n)

SpanOpen ==
    <<"<", "s", "p", "a", "n", " ", "c", "l", "a", "s", "s", "=", "[U+0022]", "t", "e",
      "x", "t", "-", "b", "l", "u", "e", "-", "4", "0", "0", " ", "h", "o", "v", "e",
      "r", ":", "u", "n", "d", "e", "r", "l", "i", "n", "e", " ", "c", "u", "r", "s",
      "o", "r", "-", "p", "o", "i", "n", "t", "e", "r", "[U+0022]", ">">>
SpanClose ==
    <<"<", "/", "s", "p", "a", "n", ">">>

\* lines 164, 165: /@(\w+)(?!zani)/ and /#(\w+)/ matched at index i, sigil being
\* "@" or "#": the length of the match, 0 when there is none.  The greedy \w+ ends
\* where no word character follows, so the lookahead always succeeds.
SigilLength(s, i, sigil) ==
    IF s[i] = sigil /\ RunEnd(s, i + 1, WordChars) > i + 1
    THEN RunEnd(s, i + 1, WordChars) - i
    ELSE 0

\* lines 182, 183, from index from on
RECURSIVE ReplaceSigil(_, _, _)
ReplaceSigil(s, from, sigil) ==
    LET starts == {i \in from..Len(s) : SigilLength(s, i, sigil) > 0} IN
    IF starts = {} THEN SubSeq(s, from, Len(s))
    ELSE LET i == Min(starts)
             n == SigilLength(s, i, sigil)
         IN SubSeq(s, from, i - 1) \o SpanOpen \o SubSeq(s, i, i + n - 1) \o SpanClose
               \o ReplaceSigil(s, i + n, sigil)

\* lines 187-189: /\*([^*]+)\*/, /\_([^_]+)\_/ and /`([^`]+)`/ matched at index i,
\* mark being the delimiter: the length of the match, 0 when there is none
EmphasisLength(s, i, mark) ==
    IF s[i] = mark
    THEN LET stop == RunEndNot(s, i + 1, {mark}) IN
         IF stop > i + 1 /\ stop <= Len(s) THEN stop - i + 1 ELSE 0
    ELSE 0

\* lines 187-189 for one delimiter, open and close being the element's tags, from
\* index from on
RECURSIVE ReplaceEmphasis(_, _, _, _, _)
ReplaceEmphasis(s, from, mark, open, close) ==
    LET starts == {i \in from..Len(s) : EmphasisLength(s, i, mark) > 0} IN
    IF starts = {} THEN SubSeq(s, from, Len(s))
    ELSE LET i == Min(starts)
             n == EmphasisLength(s, i, mark)
         IN SubSeq(s, from, i - 1) \o open \o SubSeq(s, i + 1, i + n - 2) \o close
               \o ReplaceEmphasis(s, i + n, mark, open, close)

StrongOpen == <<"<", "s", "t", "r", "o", "n", "g", ">">>
StrongClose == <<"<", "/", "s", "t", "r", "o", "n", "g", ">">>
EmOpen == <<"<", "e", "m", ">">>
EmClose == <<"<", "/", "e", "m", ">">>
CodeOpen ==
    <<"<", "c", "o", "d", "e", " ", "c", "l", "a", "s", "s", "=", "[U+0022]", "b", "g",
      "-", "g", "r", "a", "y", "-", "7", "0", "0", " ", "p", "x", "-", "1", " ", "r",
      "o", "u", "n", "d", "e", "d", " ", "t", "e", "x", "t", "-", "w", "h", "i", "t",
      "e", "[U+0022]", ">">>
CodeClose == <<"<", "/", "c", "o", "d", "e", ">">>
Backquote == "[U+0060]"

ZaniSpanOpen ==
    <<"<", "s", "p", "a", "n", " ", "c", "l", "a", "s", "s", "=", "[U+0022]", "z", "a",
      "n", "i", "-", "m", "e", "n", "t", "i", "o", "n", "[U+0022]", ">">>

\* the assistant's mention token
ZaniToken == <<"@", "z", "a", "n", "i">>

\* spec.md 4.3: the reserved token, matched with an exact boundary (a token that
\* merely starts with it, such as @zani-bot, is not the assistant's)
ZaniAt(s, i) ==
    /\ OccursAt(ZaniToken, s, i)
    /\ \/ i + Len(ZaniToken) > Len(s)
       \/ s[i + Len(ZaniToken)] \notin (WordChars \cup {"-"})

\* highlightZaniMentions of zaniService (spec.md 4.1, stage 4): every assistant
\* token is wrapped in an element of its own
RECURSIVE highlightZaniFrom(_, _)
highlightZaniFrom(s, from) ==
    LET starts == {i \in from..Len(s) : ZaniAt(s, i)} IN
    IF starts = {} THEN SubSeq(s, from, Len(s))
    ELSE LET i == Min(starts) IN
         SubSeq(s, from, i - 1) \o ZaniSpanOpen \o ZaniToken \o SpanClose
            \o highlightZaniFrom(s, i + Len(ZaniToken))

highlightZaniMentions(s) == highlightZaniFrom(s, 1)

\* lines 163-189: the rewriting of the text that is left
FormatText(textContent) ==
    LET images == ReplaceImages(textContent, 1)
        urls == ReplaceUrls(images, 1)
        zani == highlightZaniMentions(urls)
        mentions == ReplaceSigil(zani, 1, "@")
        channels == ReplaceSigil(mentions, 1, "#")
        bold == ReplaceEmphasis(channels, 1, "*", StrongOpen, StrongClose)
        italic == ReplaceEmphasis(bold, 1, "_", EmOpen, EmClose)
    IN ReplaceEmphasis(italic, 1, Backquote, CodeOpen, CodeClose)

NotCalled == [status |-> "idle", formattedContent |-> <<>>, files |-> <<>>]
Thrown == [status |-> "threw", formattedContent |-> <<>>, files |-> <<>>]

\* formatMessageContent(content) is called (line 311) and returns, or raises what
\* btoa raises.  Every render calls it anew; two calls are followed.
Format ==
    /\ previous = NotCalled
    /\ previous' = out
    /\ LET matches == FileMatches(content, 1) IN
       IF FilesThrow(matches)
       THEN out' = Thrown
       ELSE \E random \in [DOMAIN matches -> RandomSizes] :
               out' = [status |-> "returned",
                       formattedContent |-> FormatText(StripMatches(content, matches, 1)),
                       files |-> [k \in DOMAIN matches |-> FileOf(matches[k], random[k])]]
    /\ UNCHANGED <<content, storedFiles>>
    /\ UNCHANGED dispatchVars

-----------------------------------------------------------------------------
(* The messages rendered *)

ContentQuery == ZaniToken \o <<" ", "h", "i">>
ContentPlain == <<"h", "i">>
ContentNoQuery == ZaniToken \o <<" ">>
ContentEmpty == <<>>

Messages ==
    <<[id |-> 1, channelId |-> 1, content |-> ContentQuery],
      [id |-> 2, channelId |-> 2, content |-> ContentQuery],
      [id |-> 3, channelId |-> 1, content |-> ContentPlain],
      [id |-> 4, channelId |-> 2, content |-> ContentNoQuery],
      [id |-> 5, channelId |-> 1, content |-> ContentEmpty]>>

MessageIds == DOMAIN Messages
Channels == {Messages[id].channelId : id \in MessageIds}

-----------------------------------------------------------------------------
(* '@/services/zaniService' and MessageContext, from spec.md *)

containsZaniMention(s) == \E i \in 1..Len(s) : ZaniAt(s, i)

\* spec.md 4.3: the text after the token up to the end of the content; the empty
\* string (falsy at line 80) when there is none
extractZaniQuery(s) ==
    LET i == CHOOSE k \in 1..Len(s) :
                 ZaniAt(s, k) /\ \A j \in 1..(k - 1) : ~ZaniAt(s, j)
        q == Trim(SubSeq(s, i + Len(ZaniToken), Len(s)))
    IN q

\* spec.md 4.4: get(messageId) -> string | absent
getStoredZaniResponse(id) == zaniResponses[id]

\* spec.md 4.4: put(messageId, text); the value is the store after the call
storeZaniResponse(id, text) == [zaniResponses EXCEPT ![id] = text]

\* spec.md 4.4: isProcessed(messageId), true from the dispatch of the query on
isMessageProcessed(id) == id \in processedMessages

\* spec.md 4.4: the mark isProcessed reads is set when processZaniQuery is called
\* ("covers the case a query was dispatched but has not yet resolved")
markProcessed(id) == processedMessages \cup {id}

\* spec.md 6: the texts the query service resolves with
Answers == {"", "ok"}

\* MessageContext.getMessages(channelId): the channel's list, or undefined
Undefined == [defined |-> FALSE, value |-> <<>>]

getMessages(channelId) == channelMessages[channelId]

\* the messages of a channel, in id order
RECURSIVE ChannelList(_, _)
ChannelList(c, k) ==
    IF k > Len(Messages) THEN <<>>
    ELSE (IF Messages[k].channelId = c THEN <<k>> ELSE <<>>) \o ChannelList(c, k + 1)

-----------------------------------------------------------------------------
(* processZani, lines 68-106 *)

Sentinel == "Sorry, I encountered an error processing your request."

Texts == Answers \cup {Sentinel}

\* line 69
HasMention(m) == m.content # <<>> /\ containsZaniMention(m.content)

\* line 72 never finding a stored response
HasStoredNever(id) == FALSE

\* line 72: a stored response is used when it is truthy
HasStored(id) == Truthy(getStoredZaniResponse(id))

\* line 78 without the isMessageProcessed test
ShouldProcessFlagOnly(i, id) == ~isProcessingZani[i]

\* line 78 without the test of the instance's flag
ShouldProcessUnflagged(i, id) == ~isMessageProcessed(id)

\* line 78
ShouldProcess(i, id) == ~isMessageProcessed(id) /\ ~isProcessingZani[i]

\* line 80 without the test of the query
HasQueryAlways(m) == TRUE

\* lines 79-80
HasQuery(m) == extractZaniQuery(m.content) # <<>>

\* line 84 reading every channel's messages
currentChannelMessagesAll(m) == [k \in 1..Len(Messages) |-> k]

\* line 84
currentChannelMessages(m) ==
    LET r == getMessages(m.channelId) IN IF r.defined THEN r.value ELSE <<>>

\* lines 85-91: the arguments of processZaniQuery
QueryArgs(m, query) ==
    [query |-> query,
     history |-> currentChannelMessages(m),
     channelId |-> m.channelId,
     messageId |-> m.id,
     content |-> m.content]

\* lines 92-94: the response is exposed when it is truthy
ExposeResponse(i, response) ==
    IF Truthy(response) THEN [zaniResponse EXCEPT ![i] = response] ELSE zaniResponse

\* lines 100-102 without the reset
ClearProcessingNever(i) == isProcessingZani

\* lines 100-102
ClearProcessing(i) == [isProcessingZani EXCEPT ![i] = FALSE]

\* lines 97-98 without the write
StoreErrorNever(id) == zaniResponses

\* lines 97-98
StoreError(id) == storeZaniResponse(id, Sentinel)

\* line 99 without the state update
ExposeErrorNever(i) == zaniResponse

\* line 99
ExposeError(i) == [zaniResponse EXCEPT ![i] = Sentinel]

\* the value of last after a step that is no run of processZani
OtherStep == [op |-> "other", did |-> "none", inst |-> 0, msg |-> 0, text |-> Null]

\* The effect of lines 67-109 runs in instance i, up to the await of line 85.
RunEffect(i) ==
    LET m == Messages[message[i]] IN
    /\ UNCHANGED <<message, channelMessages, rejected, zaniResponses>>
    /\ UNCHANGED formatVars
    /\ IF HasMention(m) /\ HasStored(m.id)
       THEN \* lines 71-75
            /\ zaniResponse' = [zaniResponse EXCEPT ![i] = getStoredZaniResponse(m.id)]
            /\ last' = [op |-> "effect", did |-> "hit", inst |-> i, msg |-> m.id, text |-> Null]
            /\ UNCHANGED <<isProcessingZani, processedMessages, pending, calls>>
       ELSE IF /\ HasMention(m)
               /\ ShouldProcess(i, m.id)
               /\ HasQuery(m)
       THEN \* lines 79-91
            /\ calls[m.id] < MaxCalls
            /\ isProcessingZani' = [isProcessingZani EXCEPT ![i] = TRUE]
            /\ processedMessages' = markProcessed(m.id)
            /\ pending' = pending \cup
                   {[inst |-> i, args |-> QueryArgs(m, extractZaniQuery(m.content))]}
            /\ calls' = [calls EXCEPT ![m.id] = @ + 1]
            /\ last' = [op |-> "effect", did |-> "dispatch", inst |-> i, msg |-> m.id, text |-> Null]
            /\ UNCHANGED zaniResponse
       ELSE /\ last' = [op |-> "effect", did |-> "none", inst |-> i, msg |-> m.id, text |-> Null]
            /\ UNCHANGED <<isProcessingZani, zaniResponse, processedMessages, pending,
                           calls>>

\* processZaniQuery resolves with t: the service has stored the response
\* (spec.md 4.5, "On success: write to ResponseCache"); lines 92-94 and 100-102 run.
Resolve(r, t) ==
    /\ r \in pending
    /\ pending' = pending \ {r}
    /\ zaniResponses' = storeZaniResponse(r.args.messageId, t)
    /\ zaniResponse' = ExposeResponse(r.inst, t)
    /\ isProcessingZani' = ClearProcessing(r.inst)
    /\ last' = [op |-> "resolve", did |-> "none", inst |-> r.inst,
                msg |-> r.args.messageId, text |-> t]
    /\ UNCHANGED <<message, processedMessages, channelMessages, calls, rejected>>
    /\ UNCHANGED formatVars

\* processZaniQuery rejects: lines 95-102 run.
Reject(r) ==
    /\ r \in pending
    /\ pending' = pending \ {r}
    /\ zaniResponses' = StoreError(r.args.messageId)
    /\ zaniResponse' = ExposeError(r.inst)
    /\ isProcessingZani' = ClearProcessing(r.inst)
    /\ rejected' = rejected \cup {r.args.messageId}
    /\ last' = [op |-> "reject", did |-> "none", inst |-> r.inst,
                msg |-> r.args.messageId, text |-> Sentinel]
    /\ UNCHANGED <<message, processedMessages, channelMessages, calls>>
    /\ UNCHANGED formatVars

\* The parent renders instance i with another message (props.message, line 42).
ChangeMessage(i, id) ==
    /\ message[i] # id
    /\ message' = [message EXCEPT ![i] = id]
    /\ last' = OtherStep
    /\ UNCHANGED <<isProcessingZani, zaniResponse, zaniResponses, processedMessages,
                   channelMessages, pending, calls, rejected>>
    /\ UNCHANGED formatVars

\* MessageContext loads the messages of channel c.
LoadMessages(c) ==
    /\ ~channelMessages[c].defined
    /\ channelMessages' =
           [channelMessages EXCEPT ![c] = [defined |-> TRUE, value |-> ChannelList(c, 1)]]
    /\ last' = OtherStep
    /\ UNCHANGED <<message, isProcessingZani, zaniResponse, zaniResponses,
                   processedMessages, pending, calls, rejected>>
    /\ UNCHANGED formatVars

\* The page is reloaded: component state (lines 55-56) starts afresh and the calls
\* in flight are gone; the persisted store stays.
Reload ==
    /\ isProcessingZani' = [i \in Instances |-> FALSE]
    /\ zaniResponse' = [i \in Instances |-> Null]
    /\ pending' = {}
    /\ last' = OtherStep
    /\ UNCHANGED <<message, zaniResponses, processedMessages, channelMessages,
                   calls, rejected>>
    /\ UNCHANGED formatVars

FormatIdle ==
    /\ content = <<>>
    /\ storedFiles = NoStoredFiles
    /\ out = NotCalled
    /\ previous = NotCalled

Init ==
    /\ message \in [Instances -> MessageIds]
    /\ isProcessingZani = [i \in Instances |-> FALSE]
    /\ zaniResponse = [i \in Instances |-> Null]
    /\ zaniResponses = [id \in MessageIds |-> Absent]
    /\ processedMessages = {}
    /\ channelMessages = [c \in Channels |-> Undefined]
    /\ pending = {}
    /\ calls = [id \in MessageIds |-> 0]
    /\ rejected = {}
    /\ last = OtherStep
    /\ FormatIdle

Next ==
    \/ \E i \in Instances : RunEffect(i)
    \/ \E r \in pending, t \in Answers : Resolve(r, t)
    \/ \E r \in pending : Reject(r)
    \/ \E i \in Instances, id \in MessageIds : ChangeMessage(i, id)
    \/ \E c \in Channels : LoadMessages(c)
    \/ Reload

Spec == Init /\ [][Next]_vars

-----------------------------------------------------------------------------
(* Claims about the @zani effect *)

LastMessage == Messages[last.msg]

InFlight(id) == {r \in pending : r.args.messageId = id}

\* instance i awaits the answer to another message than id
BusyElsewhere(i, id) == \E r \in pending : r.inst = i /\ r.args.messageId # id

\* C1: a message that mentions the assistant with a query is sent to the query
\* service exactly once, however many instances run the effect for it and however
\* often: never twice, and once as soon as an instance that is not awaiting another
\* message's answer has run the effect for it.
C1_DispatchedExactlyOnce ==
    /\ \A id \in MessageIds : calls[id] <= 1
    /\ ( /\ last.op = "effect"
         /\ HasMention(LastMessage)
         /\ extractZaniQuery(LastMessage.content) # <<>>
         /\ ~BusyElsewhere(last.inst, last.msg) )
       => calls[last.msg] = 1

\* a second instance has run the effect while the first one's call is in flight
C1_Witness ==
    /\ last.op = "effect"
    /\ last.did = "none"
    /\ \E r \in InFlight(last.msg) : r.inst # last.inst
    /\ calls[last.msg] = 1

\* C2 as stated: whenever the store holds a text for the message, a run of the
\* effect exposes that text, calls no service, writes nothing and leaves the
\* processing flag alone.
C2_AnyStoredTextExposed ==
    [][ ( /\ last'.op = "effect"
          /\ HasMention(Messages[last'.msg])
          /\ zaniResponses[last'.msg] # Absent )
        => /\ zaniResponse'[last'.inst] = zaniResponses[last'.msg]
           /\ calls' = calls
           /\ pending' = pending
           /\ zaniResponses' = zaniResponses
           /\ isProcessingZani' = isProcessingZani ]_vars

\* C2 amended: whenever the store holds a non-empty text for the message, a run of
\* the effect exposes that text, calls no service, writes nothing and leaves the
\* processing flag alone.
C2_StoredTextExposed ==
    [][ ( /\ last'.op = "effect"
          /\ HasMention(Messages[last'.msg])
          /\ zaniResponses[last'.msg] \notin {Absent, ""} )
        => /\ zaniResponse'[last'.inst] = zaniResponses[last'.msg]
           /\ calls' = calls
           /\ pending' = pending
           /\ zaniResponses' = zaniResponses
           /\ isProcessingZani' = isProcessingZani ]_vars

\* the effect has run for a message with a stored text in an instance that did not
\* dispatch it (fresh state: nothing in flight, flag clear)
C2_Witness ==
    /\ last.op = "effect"
    /\ zaniResponses[last.msg] = "ok"
    /\ zaniResponse[last.inst] = "ok"
    /\ \E j \in Instances : j # last.inst /\ zaniResponse[j] = Null
    /\ pending = {}

\* C3: once the query for a message was rejected, the store holds the sentinel for
\* it, the service is not called for it again, and every run of the effect for it
\* exposes the sentinel.
C3_FailurePermanent ==
    [][ /\ \A id \in rejected' :
              /\ zaniResponses'[id] = Sentinel
              /\ {r \in pending' : r.args.messageId = id} = {}
        /\ \A id \in rejected : calls'[id] = calls[id]
        /\ (last'.op = "effect" /\ last'.msg \in rejected)
              => zaniResponse'[last'.inst] = Sentinel ]_vars

\* the effect has run after a reload for a message whose query had been rejected
C3_Witness ==
    /\ last.op = "effect"
    /\ last.msg \in rejected
    /\ zaniResponse[last.inst] = Sentinel
    /\ \E j \in Instances : j # last.inst /\ zaniResponse[j] = Null

\* C4: a stored response is never changed or removed once written.
C4_WriteOnce ==
    [][ \A id \in MessageIds :
           zaniResponses[id] # Absent => zaniResponses'[id] = zaniResponses[id] ]_vars

\* both outcomes are stored and steps were taken since
C4_Witness ==
    /\ \E id \in MessageIds : zaniResponses[id] = Sentinel
    /\ \E id \in MessageIds : zaniResponses[id] = "ok"
    /\ last.op = "effect"
    /\ zaniResponses[last.msg] # Absent

\* C5: right after a rejection was handled the store holds the sentinel for the
\* message, the instance exposes the sentinel and its processing flag is clear.
C5_FailureContained ==
    last.op = "reject" =>
        /\ zaniResponses[last.msg] = Sentinel
        /\ zaniResponse[last.inst] = Sentinel
        /\ ~isProcessingZani[last.inst]

C5_Witness ==
    /\ last.op = "reject"
    /\ zaniResponses[last.msg] = Sentinel

\* C6 as stated: right after the query resolved with t the store holds t, the
\* processing flag is clear and the instance exposes t, for every t.
C6_EveryAnswerExposed ==
    last.op = "resolve" =>
        /\ zaniResponses[last.msg] = last.text
        /\ ~isProcessingZani[last.inst]
        /\ zaniResponse[last.inst] = last.text

\* C6 amended: right after the query resolved with t the store holds t and the
\* processing flag is clear; the instance exposes t when t is not empty.
C6_AnswerExposed ==
    last.op = "resolve" =>
        /\ zaniResponses[last.msg] = last.text
        /\ ~isProcessingZani[last.inst]
        /\ last.text # "" => zaniResponse[last.inst] = last.text

C6_Witness ==
    /\ last.op = "resolve"
    /\ last.text = "ok"
    /\ zaniResponse[last.inst] = "ok"

\* C7: every call of the query service carries the channel id of its message and
\* a history of messages of that channel only; at the dispatch the history is the
\* list looked up for that channel, or the empty list when there is none.
C7_ChannelScoped ==
    /\ \A r \in pending :
          /\ r.args.channelId = Messages[r.args.messageId].channelId
          /\ \A k \in DOMAIN r.args.history :
                 Messages[r.args.history[k]].channelId = r.args.channelId
    /\ last.did = "dispatch" =>
          \E r \in pending :
             /\ r.inst = last.inst
             /\ r.args.messageId = last.msg
             /\ r.args.history =
                   IF channelMessages[LastMessage.channelId].defined
                   THEN channelMessages[LastMessage.channelId].value
                   ELSE <<>>

\* a dispatch with a loaded history while the other channel is loaded too, and an
\* earlier call, still in flight, made when the lookup was absent
C7_Witness ==
    /\ last.did = "dispatch"
    /\ \A c \in Channels : channelMessages[c].defined
    /\ \E r \in pending : r.args.messageId = last.msg /\ Len(r.args.history) > 1
    /\ \E r \in pending : r.args.history = <<>>

\* no mention, an empty content, or a mention without a query
Silent(m) ==
    \/ m.content = <<>>
    \/ ~containsZaniMention(m.content)
    \/ extractZaniQuery(m.content) = <<>>

\* C8: a run of the effect for a message that is empty, has no assistant mention or
\* has a mention without a query calls no service, writes no response and leaves
\* the processing flag and the exposed answer as they were.
C8_SilentWithoutQuery ==
    [][ (last'.op = "effect" /\ Silent(Messages[last'.msg]))
        => /\ calls' = calls
           /\ pending' = pending
           /\ zaniResponses' = zaniResponses
           /\ processedMessages' = processedMessages
           /\ isProcessingZani' = isProcessingZani
           /\ zaniResponse' = zaniResponse ]_vars

\* the effect has run for a mention without a query in an instance with nothing
\* in flight
C8_Witness ==
    /\ last.op = "effect"
    /\ LastMessage.content = ContentNoQuery
    /\ ~isProcessingZani[last.inst]
    /\ zaniResponse[last.inst] = Null

-----------------------------------------------------------------------------
(* formatMessageContent applied to bounded inputs *)

MaxContentLen == 7
MaxWideLen == 4

\* every string over A of length at most n
Strings(A, n) == UNION {[1..k -> A] : k \in 0..n}

CoreAlphabet == {Marker, " ", "\n", "a"}
WideAlphabet == {Marker, " ", "\n", "\r", "a", ".", Omega}

Examples ==
    {<<Marker, " ", "r", "e", "p", "o", "r", "t", ".", "p", "d", "f", "\n", "h", "e", "l", "l", "o">>,
     <<Marker, " ", "p", "i", "c", ".", "P", "N", "G">>,
     <<Marker, " ", Omega, ".", "t", "x", "t">>,
     <<Marker, " ", Omega, ".", "g", "i", "f">>,
     <<"s", "e", "e", " ", Marker, " ", "a", ".", "x", "l", "s", " ", "\n">>}

\* two attachment tokens, the second one at the end of the content
RepeatedToken == <<Marker, " ", "a", "\n", Marker, " ", "a", "\n">>
TokenThenSpace == <<Marker, " ", "a", "\n", Marker, " ", "b", " ">>
TokensApart == <<Marker, " ", "a", "\n", "\n", Marker, " ", "b", "\n", "c">>

TokenExamples == {RepeatedToken, TokenThenSpace, TokensApart}

\* the markdown image ![alt](url)
ImageSyntax(alt, url) == <<"!", "[">> \o alt \o <<"]", "(">> \o url \o <<")">>

UrlHttp == Http \o SchemeEnd \o <<"x", "/", "y", ".", "p", "n", "g">>
UrlHttps == Http \o <<"s">> \o SchemeEnd \o <<"x">>

ImageAlts == {<<>>, <<"a">>}
ImageUrls == {UrlHttp, UrlHttps}

ImageExamples == {ImageSyntax(alt, url) : alt \in ImageAlts, url \in ImageUrls}

\* tokens that have the assistant's token as a proper prefix
ZaniBot ==
    <<"@", "z", "a", "n", "i", "-", "b", "o", "t">>
ZaniWord ==
    <<"@", "z", "a", "n", "i", "b", "o", "t">>
PrefixTokens == {ZaniBot, ZaniWord}

AliceAsked ==
    <<"@", "a", "l", "i", "c", "e", " ", "a", "s", "k", "e", "d", " ">>
Something ==
    <<" ", "s", "o", "m", "e", "t", "h", "i", "n", "g">>

\* the contents that hold the token tok and no assistant token
PrefixContents(tok) == {tok, AliceAsked \o tok \o Something}

PrefixExamples == UNION {PrefixContents(tok) : tok \in PrefixTokens}

UrlOther == Http \o SchemeEnd \o <<"y">>
UrlUnderscore == Http \o SchemeEnd \o <<"x", "/", "a", "_", "b">>
UrlFragment == Http \o SchemeEnd \o <<"x", "/", "#", "a">>

See ==
    <<"s", "e", "e", " ">>
Now ==
    <<" ", "n", "o", "w">>

\* contents with bare URLs, each with the URLs it holds
UrlCases ==
    {[text |-> UrlHttp, urls |-> {UrlHttp}],
     [text |-> See \o UrlHttps \o Now, urls |-> {UrlHttps}],
     [text |-> UrlHttp \o <<" ">> \o UrlOther, urls |-> {UrlHttp, UrlOther}],
     [text |-> UrlHttps \o <<"\n">> \o UrlHttp \o <<" ">> \o UrlOther,
      urls |-> {UrlHttps, UrlHttp, UrlOther}],
     [text |-> UrlUnderscore, urls |-> {UrlUnderscore}],
     [text |-> UrlFragment, urls |-> {UrlFragment}]}

UrlExamples == {c.text : c \in UrlCases}

AtBob ==
    <<"@", "b", "o", "b">>
HashDev ==
    <<"#", "d", "e", "v">>

\* contents with mentions: whether the assistant's token is among them, and the
\* other mentions and channel references
MentionCases ==
    {[text |-> ZaniToken, zani |-> TRUE, others |-> {}],
     [text |-> ContentQuery, zani |-> TRUE, others |-> {}],
     [text |-> AtBob \o <<" ">> \o HashDev, zani |-> FALSE, others |-> {AtBob, HashDev}],
     [text |-> <<"h", "i", " ">> \o ZaniToken \o <<" ">> \o AtBob \o <<" ">> \o HashDev,
      zani |-> TRUE, others |-> {AtBob, HashDev}]}

MentionExamples == {c.text : c \in MentionCases}

\* the extensions of the table of lines 196-200, and three that are not in it
TableExtensions ==
    ImageExtensions \cup {ExtPdf, ExtDoc, ExtDocx, ExtXls, ExtXlsx}
OtherExtensions == {<<"t", "x", "t">>, <<"g", "z">>, <<>>}

\* file names: with an extension, with an upper-case extension, with two dots, and
\* with no dot at all
DottedNames == {<<"a", ".">> \o e : e \in TableExtensions \cup OtherExtensions}
UpperNames == {<<"a", ".", "P", "D", "F">>, <<"a", ".", "J", "p", "G">>}
TwoDotNames == {<<"a", ".", "p", "d", "f", ".", "g", "z">>, <<"a", ".", "g", "z", ".", "p", "n", "g">>}
DotlessNames == TableExtensions \cup {<<"a">>, <<"P", "D", "F">>}

FileNames == DottedNames \cup UpperNames \cup TwoDotNames \cup DotlessNames

NameExamples == {FilePrefix \o name : name \in FileNames}

Contents ==
    Strings(CoreAlphabet, MaxContentLen) \cup Strings(WideAlphabet, MaxWideLen)
        \cup Examples \cup TokenExamples \cup ImageExamples \cup PrefixExamples
        \cup UrlExamples \cup MentionExamples \cup NameExamples

NameA == <<"a">>
UrlOne == <<"u", "1">>
UrlTwo == <<"u", "2">>

Stores ==
    {NoStoredFiles,
     InvalidStoredFiles,
     [kind |-> "files", files |-> <<[name |-> NameA, url |-> UrlOne, size |-> 7]>>],
     [kind |-> "files", files |-> <<[name |-> NameA, url |-> <<>>, size |-> 0],
                                    [name |-> NameA, url |-> UrlTwo, size |-> 9]>>],
     [kind |-> "files", files |-> <<[name |-> <<"A">>, url |-> UrlOne, size |-> 7],
                                    [name |-> <<"a", "a">>, url |-> UrlOne, size |-> 7],
                                    [name |-> NameA, url |-> UrlTwo, size |-> 9],
                                    [name |-> NameA, url |-> UrlOne, size |-> 7]>>]}

DispatchIdle ==
    /\ message = [i \in Instances |-> 1]
    /\ isProcessingZani = [i \in Instances |-> FALSE]
    /\ zaniResponse = [i \in Instances |-> Null]
    /\ zaniResponses = [id \in MessageIds |-> Absent]
    /\ processedMessages = {}
    /\ channelMessages = [c \in Channels |-> Undefined]
    /\ pending = {}
    /\ calls = [id \in MessageIds |-> 0]
    /\ rejected = {}
    /\ last = OtherStep

InitFormat ==
    /\ DispatchIdle
    /\ content \in Contents
    /\ storedFiles \in Stores
    /\ out = NotCalled
    /\ previous = NotCalled

NextFormat == Format

SpecFormat == InitFormat /\ [][NextFormat]_vars

-----------------------------------------------------------------------------
(* Claims about formatMessageContent *)

\* C9: formatMessageContent returns a value for every content and every state of
\* the stored files; it raises no error.
C9_TransformTotal == out.status # "threw"

\* the pieces of s between line terminators, each with whether a newline or the end
\* of s follows it
RECURSIVE Segments(_)
Segments(s) ==
    LET ends == {k \in DOMAIN s : s[k] \in LineTerminators} IN
    IF ends = {} THEN <<[text |-> s, closed |-> TRUE]>>
    ELSE LET e == CHOOSE k \in ends : \A j \in ends : k <= j IN
         <<[text |-> SubSeq(s, 1, e - 1), closed |-> s[e] = "\n"]>>
            \o Segments(SubSeq(s, e + 1, Len(s)))

\* where the attachment token of a piece starts: the first glyph followed by a
\* space and at least one more character; 0 when there is none
TokenStart(text) ==
    LET starts == {k \in DOMAIN text :
                      k + 2 <= Len(text) /\ text[k] = Marker /\ text[k + 1] = " "}
    IN IF starts = {} THEN 0 ELSE CHOOSE k \in starts : \A j \in starts : k <= j

\* the trimmed file names of the attachment tokens of s, in order
RECURSIVE TokenNames(_)
TokenNames(segments) ==
    IF segments = <<>> THEN <<>>
    ELSE LET seg == Head(segments)
             k == TokenStart(seg.text)
         IN (IF seg.closed /\ k # 0
             THEN <<Trim(SubSeq(seg.text, k + 2, Len(seg.text)))>> ELSE <<>>)
               \o TokenNames(Tail(segments))

ExpectedNames(s) == TokenNames(Segments(s))

\* C10: for every content the files returned are, in order, one per attachment
\* token (the glyph, a space and a file name of characters other than line
\* terminators, ended by a newline or the end of the content), each named by the
\* trimmed file name.
C10_AttachmentsExtracted ==
    out # NotCalled =>
        /\ out.status = "returned"
        /\ [k \in DOMAIN out.files |-> out.files[k].name] = ExpectedNames(content)

\* C10, where formatMessageContent returns: the files returned are those of the
\* attachment tokens.
C10_ExtractedWhenReturned ==
    out.status = "returned" =>
        [k \in DOMAIN out.files |-> out.files[k].name] = ExpectedNames(content)

\* s holds p as a substring
Contains(s, p) == IndexOf(s, p) # 0

\* the content without its attachment tokens, each removed where it was matched
RECURSIVE WithoutTokens(_, _)
WithoutTokens(s, i) ==
    IF i > Len(s) THEN <<>>
    ELSE IF FileMatchAt(s, i)
    THEN WithoutTokens(s, i + Len(FileMatch(s, i).whole))
    ELSE <<s[i]>> \o WithoutTokens(s, i + 1)

\* the working text of stage 2 when every token is removed (and the text trimmed,
\* as line 160 does after a removal)
ExcisedText(s) ==
    IF FileMatches(s, 1) = <<>> THEN s ELSE Trim(WithoutTokens(s, 1))

\* C11: for every content the markup returned is what stages 2 to 6 make of the
\* content with every attachment token removed: no token that produced an
\* attachment is left in the working text of stage 2.
C11_TokensExcised ==
    out.status = "returned" => out.formattedContent = FormatText(ExcisedText(content))

\* C11 for a content with at most one attachment token: the token is removed.
C11_SingleTokenExcised ==
    (out.status = "returned" /\ Len(FileMatches(content, 1)) <= 1)
        => out.formattedContent = FormatText(ExcisedText(content))

\* C12: for the content ![alt](url) with an http(s) url the markup returned holds
\* an image element whose src attribute is exactly url, and no file is returned.
C12_ImageRoundTrip ==
    \A alt \in ImageAlts, url \in ImageUrls :
        (out.status = "returned" /\ content = ImageSyntax(alt, url))
            => /\ Contains(out.formattedContent, ImgOpen \o url \o ImgAlt)
               /\ out.files = <<>>

\* C12 for stage 2 alone: the image element made of ![alt](url) has url as its src
\* attribute, and no file is returned.
C12_ImageElementMade ==
    \A alt \in ImageAlts, url \in ImageUrls :
        (out.status = "returned" /\ content = ImageSyntax(alt, url))
            => /\ ReplaceImages(content, 1) = ImageElement(alt, url)
               /\ out.files = <<>>

\* C13: a token that has the assistant's token as a proper prefix is wrapped whole
\* in one ordinary mention element, gets no assistant highlighting, and its content
\* does not pass the mention test that guards the dispatch (line 69).
C13_PrefixTokenOrdinary ==
    \A tok \in PrefixTokens :
        (out.status = "returned" /\ content \in PrefixContents(tok))
            => /\ Contains(out.formattedContent, SpanOpen \o tok \o SpanClose)
               /\ ~Contains(out.formattedContent, ZaniSpanOpen)
               /\ ~HasMention([content |-> content])

\* C13 for a token of word characters only (@zanibot): it is wrapped whole in one
\* ordinary mention element; no token with the assistant's token as a proper prefix
\* gets the assistant highlighting or passes the mention test of line 69.
C13_WordTokenOrdinary ==
    \A tok \in PrefixTokens :
        (out.status = "returned" /\ content \in PrefixContents(tok))
            => /\ tok = ZaniWord
                    => Contains(out.formattedContent, SpanOpen \o tok \o SpanClose)
               /\ ~Contains(out.formattedContent, ZaniSpanOpen)
               /\ ~HasMention([content |-> content])

\* formatMessageContent was called twice with the same content and stored files
CalledTwice == previous # NotCalled

\* what a returned file holds besides its size
Unsized(file) == [name |-> file.name, type |-> file.type, url |-> file.url]

\* C14: two calls of formatMessageContent with the same content and the same
\* stored files return the same value: the same markup and the same files, url and
\* size included, whether or not the file names are found among the stored files.
C14_Deterministic ==
    CalledTwice => out = previous

\* C14 without the sizes made up at line 245: two calls end alike (both raise or
\* both return), with the same markup and files of the same name, type and url; a
\* file has the same size in both when the stored files hold a size for its name.
C14_DeterministicButSize ==
    CalledTwice =>
        /\ out.status = previous.status
        /\ out.formattedContent = previous.formattedContent
        /\ DOMAIN out.files = DOMAIN previous.files
        /\ \A k \in DOMAIN out.files :
              /\ Unsized(out.files[k]) = Unsized(previous.files[k])
              /\ HasStoredSize(out.files[k].name)
                    => out.files[k].size = previous.files[k].size

\* the characters the stages after the URL stage look for (lines 164, 165, 187-189)
LaterMarks == {"@", "#", "*", "_", Backquote}

\* C18: for every content each bare URL is, in the markup returned, a link element
\* with that URL as href and as text and with target="_blank" and rel="noopener
\* noreferrer", unaltered by the later stages, however many URLs the content holds.
C18_UrlsLinked ==
    \A c \in UrlCases :
        (out.status = "returned" /\ content = c.text)
            => \A url \in c.urls : Contains(out.formattedContent, LinkElement(url))

\* C18 for a content with one bare URL that holds none of the characters the later
\* stages look for: the link element is in the markup returned, unaltered.
C18_LoneUrlLinked ==
    \A c \in UrlCases :
        ( /\ out.status = "returned"
          /\ content = c.text
          /\ Cardinality(c.urls) = 1
          /\ \A url \in c.urls : \A k \in DOMAIN url : url[k] \notin LaterMarks )
            => \A url \in c.urls : Contains(out.formattedContent, LinkElement(url))


\* the number of places where p occurs in s
Occurrences(s, p) == Cardinality({i \in 1..Len(s) : OccursAt(p, s, i)})

\* the mention or channel reference w is wrapped in exactly one ordinary span
WrappedOnce(s, w) ==
    /\ Occurrences(s, w) = 1
    /\ Occurrences(s, SpanOpen \o w \o SpanClose) = 1

\* C19: in the markup returned the assistant's token carries the assistant
\* highlighting only, the ordinary mention span is never put around it, and every
\* other @word and every #word is wrapped in exactly one ordinary span.
C19_AssistantNotRewrapped ==
    \A c \in MentionCases :
        (out.status = "returned" /\ content = c.text)
            => /\ c.zani =>
                    /\ Occurrences(out.formattedContent,
                                   ZaniSpanOpen \o ZaniToken \o SpanClose) = 1
                    /\ ~Contains(out.formattedContent, SpanOpen \o ZaniToken)
               /\ \A w \in c.others : WrappedOnce(out.formattedContent, w)

\* C19 for the other mentions: every @word that is not the assistant's token and
\* every #word is wrapped in exactly one ordinary span.
C19_OthersWrappedOnce ==
    \A c \in MentionCases :
        (out.status = "returned" /\ content = c.text)
            => \A w \in c.others : WrappedOnce(out.formattedContent, w)

\* the stored records named exactly fileName, by their place among the records
Named(fileName) == {k \in DOMAIN StoredEntries : StoredEntries[k].name = fileName}

\* C20: when the stored files hold records named exactly as the file, the url and
\* the size of the file returned are those of the first such record.
C20_FirstMatchResolves ==
    out.status = "returned" =>
        \A k \in DOMAIN out.files :
            Named(out.files[k].name) # {} =>
                /\ out.files[k].url = StoredEntries[Min(Named(out.files[k].name))].url
                /\ out.files[k].size = StoredEntries[Min(Named(out.files[k].name))].size

\* C20 for what the first record holds: its url is returned when it is not empty
\* and its size when it is not 0; no other record is ever used, and what the first
\* record lacks is made up as for a file that is not stored.
C20_FirstMatchWhenTruthy ==
    out.status = "returned" =>
        \A k \in DOMAIN out.files :
            Named(out.files[k].name) # {} =>
                LET first == StoredEntries[Min(Named(out.files[k].name))] IN
                /\ first.url # <<>> => out.files[k].url = first.url
                /\ first.url = <<>> =>
                      out.files[k].url \in {PlaceholderUrl,
                                            DataUrlPrefix \o btoa(out.files[k].name)}
                /\ first.size # 0 => out.files[k].size = first.size
                /\ first.size = 0 => out.files[k].size \in RandomSizes

\* the table of the claim, applied to the lower-cased text after the last dot
TableType(ext) ==
    IF ext = ExtJpg THEN TypeImagePrefix \o ExtJpeg
    ELSE IF ext \in {ExtJpeg, ExtPng, ExtGif, ExtWebp, ExtSvg} THEN TypeImagePrefix \o ext
    ELSE IF ext = ExtPdf THEN TypePdf
    ELSE IF ext \in {ExtDoc, ExtDocx} THEN TypeMsword
    ELSE IF ext \in {ExtXls, ExtXlsx} THEN TypeExcel
    ELSE TypeOctetStream

HasDot(fileName) == \E k \in DOMAIN fileName : fileName[k] = "."

\* the text after the last dot of a file name that has one
AfterLastDot(fileName) ==
    SubSeq(fileName, Max({k \in DOMAIN fileName : fileName[k] = "."}) + 1, Len(fileName))

\* C21: the type of every file returned is the table's type for the lower-cased
\* text after the last dot of its name, and application/octet-stream for a name
\* with no extension.
C21_TypeFromExtension ==
    out.status = "returned" =>
        \A k \in DOMAIN out.files :
            out.files[k].type =
                IF HasDot(out.files[k].name)
                THEN TableType(toLowerCase(AfterLastDot(out.files[k].name)))
                ELSE TypeOctetStream

\* C21 for a file name with a dot: its type is the table's type for the lower-cased
\* text after the last dot.
C21_TypeOfDottedName ==
    out.status = "returned" =>
        \A k \in DOMAIN out.files :
            HasDot(out.files[k].name) =>
                out.files[k].type = TableType(toLowerCase(AfterLastDot(out.files[k].name)))

-----------------------------------------------------------------------------
(* Further claims about the @zani effect *)

\* C15: in every state at most one call of the query service is in flight for a
\* message id, over all instances rendering the message and all runs of the effect.
C15_OneOutstanding ==
    \A id \in MessageIds : Cardinality(InFlight(id)) <= 1

\* every instance renders a message whose call, made by one of them, is in flight;
\* the effect has just run for it in an instance and dispatched nothing; a call for
\* another message is in flight too
C15_Witness ==
    /\ last.op = "effect"
    /\ last.did = "none"
    /\ \A i \in Instances : message[i] = last.msg
    /\ Cardinality(InFlight(last.msg)) = 1
    /\ \E id \in MessageIds : id # last.msg /\ InFlight(id) # {}

\* C16: a run of the effect for a message with a mention and no usable stored
\* response, when the message is marked processed or the instance's flag is set,
\* calls no service, writes nothing to the store and leaves the flag and the exposed
\* answer as they were.
C16_GuardedSkip ==
    [][ ( /\ last'.op = "effect"
          /\ HasMention(Messages[last'.msg])
          /\ ~HasStored(last'.msg)
          /\ isMessageProcessed(last'.msg) \/ isProcessingZani[last'.inst] )
        => /\ calls' = calls
           /\ pending' = pending
           /\ zaniResponses' = zaniResponses
           /\ processedMessages' = processedMessages
           /\ isProcessingZani' = isProcessingZani
           /\ zaniResponse' = zaniResponse ]_vars

\* the effect has run for a message with a query that is not marked processed, in
\* an instance whose flag is set for another message's call
C16_Witness ==
    /\ last.op = "effect"
    /\ last.did = "none"
    /\ HasMention(LastMessage)
    /\ HasQuery(LastMessage)
    /\ zaniResponses[last.msg] = Absent
    /\ last.msg \notin processedMessages
    /\ isProcessingZani[last.inst]

\* The effect without page reloads, where every call of processZaniQuery made is
\* answered: the promise awaited at line 85 settles.  The channels' messages stay
\* as they are at the start (line 84 finds no list); they have no part in how a
\* call ends.
NextLive ==
    \/ \E i \in Instances : RunEffect(i)
    \/ \E r \in pending, t \in Answers : Resolve(r, t)
    \/ \E r \in pending : Reject(r)
    \/ \E i \in Instances, id \in MessageIds : ChangeMessage(i, id)

\* the call awaited by instance i settles
Settle(i) ==
    \E r \in pending :
        /\ r.inst = i
        /\ Reject(r) \/ \E t \in Answers : Resolve(r, t)

SpecLive == Init /\ [][NextLive]_vars /\ \A i \in Instances : WF_vars(Settle(i))

\* instance i awaits the answer to a message (to one only: its flag is set, line 78)
Dispatching(i) == \E r \in pending : r.inst = i

\* the call of instance i has just settled: the flag is clear, the store holds the
\* text for the call's message and the instance exposes it
Completed(i) ==
    /\ last.op \in {"resolve", "reject"}
    /\ last.inst = i
    /\ ~isProcessingZani[i]
    /\ zaniResponses[last.msg] = last.text
    /\ zaniResponse[i] = last.text

\* the same, the text being exposed when it is not empty
CompletedNonEmpty(i) ==
    /\ last.op \in {"resolve", "reject"}
    /\ last.inst = i
    /\ ~isProcessingZani[i]
    /\ zaniResponses[last.msg] = last.text
    /\ last.text # "" => zaniResponse[i] = last.text

\* a message marked processed stays marked, and a stored text stays as it is
StaysSettled ==
    /\ processedMessages \subseteq processedMessages'
    /\ \A id \in MessageIds :
          zaniResponses[id] # Absent => zaniResponses'[id] = zaniResponses[id]

Exposed(i) == ~isProcessingZani[i] /\ Truthy(zaniResponse[i])

\* C22: in every state the answer an instance shows is the stored answer of the
\* message it renders; an answer shown for a message the instance rendered before
\* is no longer shown.
C22_ExposedBelongsToMessage ==
    \A i \in Instances : Exposed(i) => zaniResponse[i] = zaniResponses[message[i]]

\* C22 once the effect has run for the message the instance renders now: the
\* answer the instance shows is the stored answer of that message.
C22_BelongsAfterEffect ==
    (last.op = "effect" /\ Exposed(last.inst))
        => zaniResponse[last.inst] = zaniResponses[last.msg]

\* C22 for the text alone: the answer an instance shows is the stored answer of
\* some message, the one it renders or one it rendered before.
C22_ExposedIsStored ==
    \A i \in Instances :
        Exposed(i) => \E id \in MessageIds : zaniResponse[i] = zaniResponses[id]

====
